---- MODULE Spec2Model ----
(***************************************************************************)
(* State-machine model of sonarqube_api.api.SonarAPIHandler:               *)
(*   - _make_call's classification of a transport response,                *)
(*   - the paginated generators get_metrics / get_rules,                   *)
(*   - the merge generator get_resources_full_data.                        *)
(* Strings are modelled as sequences of small naturals (code points) where *)
(* their order matters (resource keys) and as atoms where it does not.     *)
(***************************************************************************)
EXTENDS Integers, Naturals, Sequences, FiniteSets, TLC

VARIABLES
    \* ---- _make_call on one response ----
    cpc,        \* "idle" | "returned" | "raised"
    cres,       \* the transport response handed to _make_call
    cout,       \* what _make_call did with it
    \* ---- one paginated generator (get_metrics / get_rules) ----
    server,     \* what the server holds and how it answers
    fpc,        \* "nocall" | "created" | "suspended" | "running" | "done" | "raised"
    qs,         \* the generator's query dict
    page_num, page_size, n_total,   \* the generator's page counters
    buf,        \* items of the current page not yet yielded
    received,   \* items carried by the successful responses so far
    yielded,    \* items delivered to the consumer so far
    fcall,      \* the call that created the generator, with its arguments
    nreq,       \* number of requests issued so far
    lastreq,    \* endpoint and query of the latest request
    fstatus,    \* status code of the latest response, 0 before the first
    ferr,       \* exception that ended the generator, "none" if none
    first_empty,\* history: the first response reported total 0 and no item
    pull_reqs,  \* history: requests issued since the latest next()
    \* ---- one get_resources_full_data generator ----
    mpc,        \* "nocall" | "suspended" | "yielding" | "done" | "raised"
    margs,      \* arguments of the call
    mresp,      \* decoded body of the metrics response
    dresp,      \* decoded body of the debt response
    mreqs,      \* requests issued, in order
    merr,       \* exception that ended the generator, "none" if none
    pending,    \* sorted records not yet yielded
    emitted,    \* records delivered to the consumer so far
    \* ---- one SonarAPIHandler and the operations called on it ----
    hpc,        \* "new" before __init__ has run, "ready" after
    hargs,      \* the user, password and token given to __init__
    auth,       \* self._session.auth
    hcall,      \* operation and arguments of the latest call on the handler
    hreq,       \* the latest request: method, endpoint, body, credential
    hreqs,      \* number of requests issued through the session
    hcalls,     \* number of operations called on the handler
    hout,       \* what _make_call did with the latest response
    hret,       \* what the latest operation gave back to its caller
    \* ---- one run of a batch command (migrate / activate / export) ----
    kcmd,       \* "none" | "migrate" | "activate" | "export"
    kpc,        \* "init" | "loop" | "done" | "crashed"
    cnt,        \* the counters of main()
    stdout,     \* lines written to standard output
    stderr,     \* lines written to standard error
    csv,        \* rows written to the CSV file (export)
    kposts,     \* requests sent to the target / activation endpoint
    kn,         \* items taken from the source so far
    kattempt,   \* history: items the command had to act on so far
    klast,      \* what happened to the latest item
    \* ---- get_resources_metrics calls on one caller's metrics object ----
    rpc,        \* "nocall" | "created" | "done" | "raised"
    rlist,      \* content of the list object the caller holds
    rlist0,     \* history: its content when the caller built it
    rcur,       \* the latest call: arguments, list content before, requests
    rprev,      \* the call before it
    rcalls,     \* number of calls made
    \* ---- two paginated generators of one handler ----
    gens,       \* the two generator frames
    pserver     \* the collection size and page size of the server

cvars == <<cpc, cres, cout>>
fvars == <<server, fpc, fcall, qs, page_num, page_size, n_total, buf,
           received, yielded, nreq, lastreq, fstatus, ferr, first_empty,
           pull_reqs>>
mvars == <<mpc, margs, mresp, dresp, mreqs, merr, pending, emitted>>
hvars == <<hpc, hargs, auth, hcall, hreq, hreqs, hcalls, hout, hret>>
kvars == <<kcmd, kpc, cnt, stdout, stderr, csv, kposts, kn, kattempt, klast>>
rvars == <<rpc, rlist, rlist0, rcur, rprev, rcalls>>
pvars == <<gens, pserver>>
vars == <<cvars, fvars, mvars, hvars, kvars, rvars, pvars>>

\* ------------------------------------------------------------------------
\* Generic helpers
\* ------------------------------------------------------------------------
SeqsUpTo(S, n) == UNION {[1..k -> S] : k \in 0..n}

Range(s) == {s[i] : i \in 1..Len(s)}

\* ------------------------------------------------------------------------
\* _make_call: classification of a response
\* ------------------------------------------------------------------------
\* number of error objects a 400 body may carry in the model
MaxErrors == 2

\* every status code a transport response can carry
StatusCodes == 100..599

\* decoded bodies of a failure response: not JSON at all, a JSON object
\* without 'errors', or an 'errors' list whose objects may lack 'msg'
ErrorObjects == {[has_msg |-> TRUE, msg |-> "m1"],
                 [has_msg |-> TRUE, msg |-> "m2"],
                 [has_msg |-> FALSE, msg |-> ""]}

Bodies == {[shape |-> "not_json", errors |-> <<>>],
           [shape |-> "no_errors", errors |-> <<>>]}
          \cup {[shape |-> "errors", errors |-> es] :
                    es \in SeqsUpTo(ErrorObjects, MaxErrors)}

WellFormedBody == [shape |-> "errors",
                   errors |-> <<[has_msg |-> TRUE, msg |-> "m1"]>>]

\* ', '.join(msgs): the messages with the separator between neighbours
RECURSIVE Join(_)
Join(msgs) ==
    IF Len(msgs) = 0 THEN <<>>
    ELSE IF Len(msgs) = 1 THEN <<msgs[1]>>
    ELSE <<msgs[1], ", ">> \o Join(Tail(msgs))

\* variant of ValidationBranch: only the first error object's message
ValidationBranchFirstOnly(body) ==
    IF body.shape = "not_json"
        THEN [kind |-> "ValueError", msg |-> <<>>]
    ELSE IF body.shape = "no_errors"
        THEN [kind |-> "KeyError", msg |-> <<"errors">>]
    ELSE IF \E i \in 1..Len(body.errors) : ~body.errors[i].has_msg
        THEN [kind |-> "KeyError", msg |-> <<"msg">>]
    ELSE [kind |-> "ValidationError",
          msg |-> IF body.errors = <<>> THEN <<>> ELSE <<body.errors[1].msg>>]

\* msg = ', '.join(e['msg'] for e in res.json()['errors']); raise ValidationError(msg)
\* res.json() raises ValueError on a body that is no JSON, ['errors'] and
\* e['msg'] raise KeyError on a missing key.
ValidationBranch(body) ==
    IF body.shape = "not_json"
        THEN [kind |-> "ValueError", msg |-> <<>>]
    ELSE IF body.shape = "no_errors"
        THEN [kind |-> "KeyError", msg |-> <<"errors">>]
    ELSE IF \E i \in 1..Len(body.errors) : ~body.errors[i].has_msg
        THEN [kind |-> "KeyError", msg |-> <<"msg">>]
    ELSE [kind |-> "ValidationError",
          msg |-> Join([i \in 1..Len(body.errors) |-> body.errors[i].msg])]

\* the if/elif chain of _make_call on res.status_code
make_call(res) ==
    IF res.status_code < 300 THEN [kind |-> "ok", msg |-> <<>>]
    ELSE IF res.status_code = 400 THEN ValidationBranch(res.body)
    ELSE IF res.status_code \in {401, 403}
        THEN [kind |-> "AuthError", msg |-> <<res.reason>>]
    ELSE IF res.status_code < 500
        THEN [kind |-> "ClientError", msg |-> <<res.reason>>]
    ELSE [kind |-> "ServerError", msg |-> <<res.reason>>]

Responses(codes, bodies) ==
    [status_code : codes, body : bodies, reason : {"reason"}]

CInit == /\ cpc = "idle"
         /\ cres \in Responses(StatusCodes, Bodies)
         /\ cout = [kind |-> "none", msg |-> <<>>]

\* _make_call returns the response
MakeCallReturn ==
    /\ cpc = "idle"
    /\ make_call(cres).kind = "ok"
    /\ cpc' = "returned"
    /\ cout' = make_call(cres)
    /\ UNCHANGED cres
    /\ UNCHANGED <<fvars, mvars, hvars, kvars, rvars, pvars>>

\* _make_call raises
MakeCallRaise ==
    /\ cpc = "idle"
    /\ make_call(cres).kind # "ok"
    /\ cpc' = "raised"
    /\ cout' = make_call(cres)
    /\ UNCHANGED cres
    /\ UNCHANGED <<fvars, mvars, hvars, kvars, rvars, pvars>>

\* ------------------------------------------------------------------------
\* get_metrics / get_rules: the paginated generators
\* ------------------------------------------------------------------------
\* largest collection the server holds in the model
MaxN == 3

\* requests after which the model stops following a fetch that never ends
MaxRequests == MaxN + 1

\* dicts are functions from key to value
EmptyDict == [k \in {} |-> ""]

Put(d, k, v) == [x \in DOMAIN d \cup {k} |-> IF x = k THEN v ELSE d[x]]

Update(d, e) == [x \in DOMAIN d \cup DOMAIN e |-> IF x \in DOMAIN e THEN e[x] ELSE d[x]]

\* str.lower() on the argument strings of the model; "" stands for None
Lower(str) ==
    CASE str = "Coverage,Violations" -> "coverage,violations"
      [] str = "PY,JS" -> "py,js"
      [] OTHER -> str

METRICS_LIST_ENDPOINT == "/api/metrics/search"
RULES_LIST_ENDPOINT == "/api/rules/search"

\* get_metrics: queryset including fields if required
MetricsQs(fields) ==
    IF fields # "" THEN Put(EmptyDict, "f", Lower(fields)) ELSE EmptyDict

\* get_rules: queryset from the filters
RulesQs(active_only, profile, languages, custom_only) ==
    LET q0 == Put(Put(EmptyDict, "is_template", "no"), "statuses", "READY")
        q1 == IF profile # ""
                 THEN Update(q0, Put(Put(EmptyDict, "activation", "true"),
                                     "qprofile", profile))
              ELSE IF active_only THEN Put(q0, "activation", "true")
              ELSE q0
        q2 == IF languages # "" THEN Put(q1, "languages", Lower(languages)) ELSE q1
    IN  IF custom_only THEN Put(q2, "has_debt_characteristic", "false") ELSE q2

BuildQs(call) ==
    IF call.fn = "get_metrics" THEN MetricsQs(call.fields)
    ELSE RulesQs(call.active_only, call.profile, call.languages, call.custom_only)

Endpoint(call) ==
    IF call.fn = "get_metrics" THEN METRICS_LIST_ENDPOINT ELSE RULES_LIST_ENDPOINT

NoCall == [fn |-> "none", fields |-> "", active_only |-> FALSE, profile |-> "",
           languages |-> "", custom_only |-> FALSE]

MetricsCalls ==
    {[NoCall EXCEPT !.fn = "get_metrics", !.fields = f] :
        f \in {"", "Coverage,Violations"}}

RulesCalls ==
    {[NoCall EXCEPT !.fn = "get_rules", !.active_only = a[1], !.profile = a[2],
                    !.languages = a[3], !.custom_only = a[4]] :
        a \in {<<FALSE, "", "", FALSE>>, <<TRUE, "", "", FALSE>>,
               <<FALSE, "prof1", "PY,JS", FALSE>>, <<TRUE, "", "PY,JS", TRUE>>}}

\* variant of LoopCond: counts the page about to be asked for as fetched
LoopCondEarly(pn, ps, n) == (pn + 1) * ps < n

\* variant of LoopCond: <= for <
LoopCondInclusive(pn, ps, n) == pn * ps <= n

\* while page_num * page_size < n_metrics
LoopCond(pn, ps, n) == pn * ps < n

\* q.get('p', 1)
RequestedPageOf(q) == IF "p" \in DOMAIN q THEN q["p"] ELSE 1

\* variant of NextPageQs: counts its own pages instead of reading the response
NextPageQsCounted(q, pn) == Put(q, "p", RequestedPageOf(q) + 1)

\* variant of NextPageQs: asks for the page just received
NextPageQsSame(q, pn) == Put(q, "p", pn)

\* qs['p'] = page_num + 1
NextPageQs(q, pn) == Put(q, "p", pn + 1)

\* the page a request asks for: the server's default is the first
RequestedPage(q) == IF "p" \in DOMAIN q THEN q["p"] ELSE 1

Min(a, b) == IF a < b THEN a ELSE b

\* items first..last, in order
Interval(first, last) ==
    IF last < first THEN <<>> ELSE [i \in 1..(last - first + 1) |-> first + i - 1]

\* an honest server holding items 1..N answers page q in pages of size S
HonestPage(N, S, q) ==
    [p |-> q, ps |-> S, total |-> N,
     items |-> Interval((q - 1) * S + 1, Min(q * S, N))]

\* envelopes of a server that may report anything; its items are numbered
\* in the order it hands them out, and it holds MaxN of them at most
AnyPages(got) ==
    {[p |-> p, ps |-> ps, total |-> t, items |-> Interval(got + 1, got + k)] :
        p \in 0..MaxN, ps \in 0..MaxN, t \in 0..MaxN,
        k \in 0..(IF got + MaxN - 1 <= MaxN THEN MaxN - 1 ELSE MaxN - got)}

Servers == {[mode |-> "any", N |-> 0, S |-> 0]}
           \cup {[mode |-> "honest", N |-> N, S |-> S] : N \in 0..MaxN, S \in 1..MaxN}

SuccessPages(srv, q, got) ==
    IF srv.mode = "honest" THEN {HonestPage(srv.N, srv.S, RequestedPage(q))}
    ELSE AnyPages(got)

\* failure responses the transport may hand back to a fetch
FailureResponses ==
    Responses({304, 400, 401, 403, 404, 500},
              {WellFormedBody, [shape |-> "no_errors", errors |-> <<>>]})

OkResponse == [status_code |-> 200, body |-> WellFormedBody, reason |-> "OK"]

NoRequest == [endpoint |-> "", qs |-> EmptyDict]

FInit ==
    /\ server \in Servers
    /\ fpc = "nocall"
    /\ fcall = NoCall
    /\ qs = EmptyDict
    /\ page_num = 0 /\ page_size = 0 /\ n_total = 0
    /\ buf = <<>> /\ received = <<>> /\ yielded = <<>>
    /\ nreq = 0 /\ lastreq = NoRequest /\ fstatus = 0 /\ ferr = "none"
    /\ first_empty = FALSE
    /\ pull_reqs = 0

\* h.get_metrics(fields): creates the generator, runs none of its body
GetMetrics ==
    /\ fpc = "nocall"
    /\ \E c \in MetricsCalls : fcall' = c
    /\ fpc' = "created"
    /\ UNCHANGED <<server, qs, page_num, page_size, n_total, buf, received,
                   yielded, nreq, lastreq, fstatus, ferr>>
    /\ UNCHANGED <<first_empty, pull_reqs, cvars, mvars, hvars, kvars, rvars, pvars>>

\* h.get_rules(...): creates the generator, runs none of its body
GetRules ==
    /\ fpc = "nocall"
    /\ \E c \in RulesCalls : fcall' = c
    /\ fpc' = "created"
    /\ UNCHANGED <<server, qs, page_num, page_size, n_total, buf, received,
                   yielded, nreq, lastreq, fstatus, ferr>>
    /\ UNCHANGED <<first_empty, pull_reqs, cvars, mvars, hvars, kvars, rvars, pvars>>

\* first next(): the body runs from its top: queryset and page counters
PullFirst ==
    /\ fpc = "created"
    /\ qs' = BuildQs(fcall)
    /\ page_num' = 1 /\ page_size' = 1 /\ n_total' = 2
    /\ fpc' = "running"
    /\ pull_reqs' = 0
    /\ UNCHANGED <<server, fcall, buf, received, yielded, nreq, lastreq,
                   fstatus, ferr>>
    /\ UNCHANGED <<first_empty, cvars, mvars, hvars, kvars, rvars, pvars>>

\* a later next(): the body resumes after the yield
PullNext ==
    /\ fpc = "suspended"
    /\ fpc' = "running"
    /\ pull_reqs' = 0
    /\ UNCHANGED <<server, fcall, qs, page_num, page_size, n_total, buf,
                   received, yielded, nreq, lastreq, fstatus, ferr>>
    /\ UNCHANGED <<first_empty, cvars, mvars, hvars, kvars, rvars, pvars>>

\* variant of PageExhausted: the next page is asked for while the last item
\* of the current one is still to be yielded
PageAlmostExhausted(b) == Len(b) <= 1

\* the for loop over the items of the current page has run to its end
PageExhausted(b) == b = <<>>

\* loop test true, request answered with a page: counters and queryset updated
FetchPage ==
    /\ fpc = "running" /\ PageExhausted(buf)
    /\ LoopCond(page_num, page_size, n_total)
    /\ nreq < MaxRequests
    /\ make_call(OkResponse).kind = "ok"
    /\ \E env \in SuccessPages(server, qs, Len(received)) :
          /\ page_num' = env.p
          /\ page_size' = env.ps
          /\ n_total' = env.total
          /\ qs' = NextPageQs(qs, env.p)
          /\ buf' = env.items
          /\ received' = received \o env.items
          /\ first_empty' = IF nreq = 0
                               THEN env.total = 0 /\ env.items = <<>>
                               ELSE first_empty
    /\ nreq' = nreq + 1
    /\ pull_reqs' = pull_reqs + 1
    /\ lastreq' = [endpoint |-> Endpoint(fcall), qs |-> qs]
    /\ fstatus' = OkResponse.status_code
    /\ UNCHANGED <<server, fpc, fcall, yielded, ferr>>
    /\ UNCHANGED <<cvars, mvars, hvars, kvars, rvars, pvars>>

\* loop test true, request answered with a failure: _make_call raises and
\* the exception leaves the generator
FetchFail ==
    /\ fpc = "running" /\ PageExhausted(buf)
    /\ LoopCond(page_num, page_size, n_total)
    /\ nreq < MaxRequests
    /\ \E res \in FailureResponses :
          /\ make_call(res).kind # "ok"
          /\ ferr' = make_call(res).kind
          /\ fstatus' = res.status_code
    /\ fpc' = "raised"
    /\ nreq' = nreq + 1
    /\ pull_reqs' = pull_reqs + 1
    /\ lastreq' = [endpoint |-> Endpoint(fcall), qs |-> qs]
    /\ UNCHANGED <<server, fcall, qs, page_num, page_size, n_total, buf,
                   received, yielded>>
    /\ UNCHANGED <<first_empty, cvars, mvars, hvars, kvars, rvars, pvars>>

\* for item in res[...]: yield item
YieldItem ==
    /\ fpc = "running" /\ buf # <<>>
    /\ yielded' = Append(yielded, Head(buf))
    /\ buf' = Tail(buf)
    /\ fpc' = "suspended"
    /\ UNCHANGED <<server, fcall, qs, page_num, page_size, n_total, received,
                   nreq, lastreq, fstatus, ferr>>
    /\ UNCHANGED <<first_empty, pull_reqs, cvars, mvars, hvars, kvars, rvars, pvars>>

\* loop test false: the body falls off its end, next() raises StopIteration
FetchEnd ==
    /\ fpc = "running" /\ PageExhausted(buf)
    /\ ~LoopCond(page_num, page_size, n_total)
    /\ fpc' = "done"
    /\ UNCHANGED <<server, fcall, qs, page_num, page_size, n_total, buf,
                   received, yielded, nreq, lastreq, fstatus, ferr>>
    /\ UNCHANGED <<first_empty, pull_reqs, cvars, mvars, hvars, kvars, rvars, pvars>>

\* ------------------------------------------------------------------------
\* get_resources_full_data: the merge generator
\* ------------------------------------------------------------------------
\* largest number of records the two resource responses carry together
MaxRecords == 3

RESOURCES_ENDPOINT == "/api/resources"

\* resource keys are strings: sequences of code points
Keys == {<<1>>, <<1, 2>>, <<2>>}

Names == {"n1", "n2"}

MsrLists == {<<"coverage">>, <<"sqale_index", "coverage">>}

\* the records a resources response may carry
Records == [key : Keys, name : Names, msr : MsrLists]

\* a < b for strings: the first differing code point decides, a proper
\* prefix is smaller
RECURSIVE StrLess(_, _)
StrLess(a, b) ==
    IF Len(b) = 0 THEN FALSE
    ELSE IF Len(a) = 0 THEN TRUE
    ELSE IF Head(a) # Head(b) THEN Head(a) < Head(b)
    ELSE StrLess(Tail(a), Tail(b))

\* a dict of records is the sequence of its values in insertion order,
\* each stored under its own 'key'
DictKeys(d) == {d[i].key : i \in 1..Len(d)}

DictGet(d, k) == d[CHOOSE i \in 1..Len(d) : d[i].key = k]

\* d[k] = v: overwrite in place, or insert at the end
DictSet(d, k, v) ==
    IF k \in DictKeys(d)
        THEN [i \in 1..Len(d) |-> IF d[i].key = k THEN v ELSE d[i]]
    ELSE Append(d, v)

\* variant of BuildPrjs: the dict is keyed by prj['name']
RECURSIVE FillByName(_, _)
FillByName(d, mlist) ==
    IF mlist = <<>> THEN d
    ELSE LET prj == Head(mlist)
         IN  FillByName(
                 IF \E i \in 1..Len(d) : d[i].name = prj.name
                     THEN [i \in 1..Len(d) |->
                              IF d[i].name = prj.name THEN prj ELSE d[i]]
                 ELSE Append(d, prj),
                 Tail(mlist))

BuildPrjsByName(mlist) == FillByName(<<>>, mlist)

\* prjs = {prj['key']: prj for prj in get_resources_metrics(...)}
RECURSIVE FillPrjs(_, _)
FillPrjs(d, mlist) ==
    IF mlist = <<>> THEN d
    ELSE FillPrjs(DictSet(d, Head(mlist).key, Head(mlist)), Tail(mlist))

BuildPrjs(mlist) == FillPrjs(<<>>, mlist)

\* variant of ExtendMsr: the debt entries go in front
ExtendMsrFront(old, prj) == [old EXCEPT !.msr = prj.msr \o old.msr]

\* variant of ExtendMsr: the debt record takes the place of the stored one
ExtendMsrReplace(old, prj) == [prj EXCEPT !.msr = old.msr \o prj.msr]

\* prjs[prj['key']]['msr'].extend(prj['msr'])
ExtendMsr(old, prj) == [old EXCEPT !.msr = old.msr \o prj.msr]

\* variant of MergeDebtRecord: no else branch
MergeDebtKnownOnly(d, prj) ==
    IF prj.key \in DictKeys(d)
        THEN DictSet(d, prj.key, ExtendMsr(DictGet(d, prj.key), prj))
    ELSE d

\* one turn of the debt loop
MergeDebtRecord(d, prj) ==
    IF prj.key \in DictKeys(d)
        THEN DictSet(d, prj.key, ExtendMsr(DictGet(d, prj.key), prj))
    ELSE DictSet(d, prj.key, prj)

\* for prj in get_resources_debt(...): merge by key
RECURSIVE MergeDebt(_, _)
MergeDebt(d, dlist) ==
    IF dlist = <<>> THEN d
    ELSE MergeDebt(MergeDebtRecord(d, Head(dlist)), Tail(dlist))

\* sorted(prjs.items(), key=operator.itemgetter(0)): insertion into a list
\* kept ascending; equal keys keep their order
RECURSIVE InsertSorted(_, _)
InsertSorted(sorted, prj) ==
    IF sorted = <<>> THEN <<prj>>
    ELSE IF StrLess(prj.key, Head(sorted).key) THEN <<prj>> \o sorted
    ELSE <<Head(sorted)>> \o InsertSorted(Tail(sorted), prj)

RECURSIVE SortInto(_, _)
SortInto(sorted, rest) ==
    IF rest = <<>> THEN sorted
    ELSE SortInto(InsertSorted(sorted, Head(rest)), Tail(rest))

\* variant of SortedByKey: the dict's own order
InsertionOrder(d) == d

SortedByKey(d) == SortInto(<<>>, d)

\* the records get_resources_full_data yields, in order
FullData(mlist, dlist) == SortedByKey(MergeDebt(BuildPrjs(mlist), dlist))

\* get_resources_metrics: metrics.extend(...) when include_trends is set;
\* the default GENERAL_METRICS is a tuple and has no extend
MetricsRaises(args) == args.include_trends /\ args.metrics = ""

\* (metrics, debt) response pairs within the bound
ResourceLists == SeqsUpTo(Records, MaxRecords)

MergeFailures == Responses({401, 404, 500}, {WellFormedBody})

MInit ==
    /\ mpc = "nocall"
    /\ margs = [metrics |-> "", include_trends |-> FALSE]
    /\ mresp = <<>> /\ dresp = <<>>
    /\ mreqs = <<>> /\ merr = "none"
    /\ pending = <<>> /\ emitted = <<>>

\* h.get_resources_full_data(...): creates the generator
GetResourcesFullData ==
    /\ mpc = "nocall"
    /\ \E m \in {"", "coverage"}, t \in BOOLEAN :
          margs' = [metrics |-> m, include_trends |-> t]
    /\ mpc' = "created"
    /\ UNCHANGED <<mresp, dresp, mreqs, merr, pending, emitted>>
    /\ UNCHANGED <<cvars, fvars, hvars, kvars, rvars, pvars>>

\* first next(): get_resources_metrics raises before any request
MergeArgsRaise ==
    /\ mpc = "created"
    /\ MetricsRaises(margs)
    /\ mpc' = "raised"
    /\ merr' = "AttributeError"
    /\ UNCHANGED <<margs, mresp, dresp, mreqs, pending, emitted>>
    /\ UNCHANGED <<cvars, fvars, hvars, kvars, rvars, pvars>>

\* first next(): the metrics request fails
MergeMetricsFail ==
    /\ mpc = "created"
    /\ ~MetricsRaises(margs)
    /\ \E res \in MergeFailures :
          /\ make_call(res).kind # "ok"
          /\ merr' = make_call(res).kind
    /\ mreqs' = <<"metrics">>
    /\ mpc' = "raised"
    /\ UNCHANGED <<margs, mresp, dresp, pending, emitted>>
    /\ UNCHANGED <<cvars, fvars, hvars, kvars, rvars, pvars>>

\* first next(): the metrics request succeeds, the debt request fails
MergeDebtFail ==
    /\ mpc = "created"
    /\ ~MetricsRaises(margs)
    /\ make_call(OkResponse).kind = "ok"
    /\ \E mlist \in ResourceLists : mresp' = mlist
    /\ \E res \in MergeFailures :
          /\ make_call(res).kind # "ok"
          /\ merr' = make_call(res).kind
    /\ mreqs' = <<"metrics", "debt">>
    /\ mpc' = "raised"
    /\ UNCHANGED <<margs, dresp, pending, emitted>>
    /\ UNCHANGED <<cvars, fvars, hvars, kvars, rvars, pvars>>

\* first next(): both requests succeed, the records are merged and sorted,
\* and the first one is yielded (or the generator ends if there is none)
MergeFirst ==
    /\ mpc = "created"
    /\ ~MetricsRaises(margs)
    /\ make_call(OkResponse).kind = "ok"
    /\ \E mlist \in ResourceLists :
       \E dlist \in SeqsUpTo(Records, MaxRecords - Len(mlist)) :
          /\ mresp' = mlist
          /\ dresp' = dlist
          /\ LET out == FullData(mlist, dlist)
             IN  IF out = <<>>
                    THEN /\ mpc' = "done"
                         /\ pending' = <<>>
                         /\ emitted' = <<>>
                    ELSE /\ mpc' = "suspended"
                         /\ pending' = Tail(out)
                         /\ emitted' = <<Head(out)>>
    /\ mreqs' = <<"metrics", "debt">>
    /\ UNCHANGED <<margs, merr>>
    /\ UNCHANGED <<cvars, fvars, hvars, kvars, rvars, pvars>>

\* a later next(): the next sorted record, or the end
MergeNext ==
    /\ mpc = "suspended"
    /\ IF pending = <<>>
          THEN /\ mpc' = "done"
               /\ UNCHANGED <<pending, emitted>>
          ELSE /\ emitted' = Append(emitted, Head(pending))
               /\ pending' = Tail(pending)
               /\ UNCHANGED mpc
    /\ UNCHANGED <<margs, mresp, dresp, mreqs, merr>>
    /\ UNCHANGED <<cvars, fvars, hvars, kvars, rvars, pvars>>

\* ------------------------------------------------------------------------
\* SonarAPIHandler: construction, activate_rule, create_rule,
\* validate_authentication
\* ------------------------------------------------------------------------
\* operations called on one handler
MaxCalls == 2

\* keyword parameters passed to one activate_rule call
MaxParams == 2

RULES_ACTIVATION_ENDPOINT == "/api/qualityprofiles/activate_rule"
RULES_CREATE_ENDPOINT == "/api/rules/create"
AUTH_VALIDATION_ENDPOINT == "/api/authentication/validate"

\* constructor arguments; "" stands for a value that is None or empty
Users == {"", "admin"}
Passwords == {"", "secret"}
Tokens == {"", "tok"}

\* requests.Session().auth before anything is assigned to it
NoAuth == <<>>

\* variant of SessionAuth: user and password win over the token
SessionAuthUserFirst(user, password, token) ==
    IF user # "" /\ password # "" THEN <<user, password>>
    ELSE IF token # "" THEN <<token, "">>
    ELSE NoAuth

\* if token: auth = token, ''  elif user and password: auth = user, password
SessionAuth(user, password, token) ==
    IF token # "" THEN <<token, "">>
    ELSE IF user # "" /\ password # "" THEN <<user, password>>
    ELSE NoAuth

\* free text is a sequence of code points:
\* 'major', 'Info', 'Ready'
S_major == <<109, 97, 106, 111, 114>>
S_Info == <<73, 110, 102, 111>>
S_Ready == <<82, 101, 97, 100, 121>>

\* severities passed to activate_rule; <<>> stands for None or ''
Severities == {<<>>, S_major, S_Info}

\* parameter names 'a', 'b', 'B' and values '' and '1'
ParamNames == {<<97>>, <<98>>, <<66>>}
ParamValues == {<<>>, <<49>>}

\* **params: name/value pairs with distinct names, in the order passed
ParamDicts ==
    {ps \in SeqsUpTo(ParamNames \X ParamValues, MaxParams) :
        \A i, j \in 1..Len(ps) : i # j => ps[i][1] # ps[j][1]}

\* str.upper()
Upper(str) ==
    [i \in 1..Len(str) |-> IF str[i] \in 97..122 THEN str[i] - 32 ELSE str[i]]

\* tuple comparison of (name, value) items
ItemLess(p, q) ==
    \/ StrLess(p[1], q[1])
    \/ p[1] = q[1] /\ StrLess(p[2], q[2])

RECURSIVE InsertItem(_, _)
InsertItem(sorted, p) ==
    IF sorted = <<>> THEN <<p>>
    ELSE IF ItemLess(p, Head(sorted)) THEN <<p>> \o sorted
    ELSE <<Head(sorted)>> \o InsertItem(Tail(sorted), p)

\* variant of SortedItems: the items in the order passed
ItemsAsPassed(ps) == ps

\* sorted(params.items())
RECURSIVE SortedItems(_)
SortedItems(ps) ==
    IF ps = <<>> THEN <<>>
    ELSE InsertItem(SortedItems(Tail(ps)), Head(ps))

\* sep.join(parts) on code-point strings
RECURSIVE JoinStr(_, _)
JoinStr(sep, parts) ==
    IF parts = <<>> THEN <<>>
    ELSE IF Len(parts) = 1 THEN parts[1]
    ELSE parts[1] \o sep \o JoinStr(sep, Tail(parts))

\* '{}={}'.format(k, v)
FormatItem(p) == p[1] \o <<61>> \o p[2]

Truthy(p) == p[2] # <<>>

\* ';'.join('{}={}'.format(k, v) for k, v in sorted(params.items()) if v)
ParamsString(ps) ==
    LET kept == SelectSeq(SortedItems(ps), Truthy)
    IN  JoinStr(<<59>>, [i \in 1..Len(kept) |-> FormatItem(kept[i])])

\* variant of ActivateData: severity is added whether or not reset is set
ActivateDataKeepSeverity(key, profile_key, reset, severity, params) ==
    LET data == [rule_key |-> key, profile_key |-> profile_key,
                 reset |-> IF reset THEN "true" ELSE "false"]
        with_sev == IF severity # <<>>
                    THEN Put(data, "severity", Upper(severity)) ELSE data
        str == ParamsString(params)
    IN  IF reset THEN with_sev
        ELSE IF str # <<>> THEN Put(with_sev, "params", str) ELSE with_sev

\* the data dict activate_rule posts
ActivateData(key, profile_key, reset, severity, params) ==
    LET data == [rule_key |-> key, profile_key |-> profile_key,
                 reset |-> IF reset THEN "true" ELSE "false"]
        with_sev == IF severity # <<>>
                    THEN Put(data, "severity", Upper(severity)) ELSE data
        str == ParamsString(params)
    IN  IF reset THEN data
        ELSE IF str # <<>> THEN Put(with_sev, "params", str) ELSE with_sev

\* 'message=' and ';xpathQuery='
S_message_eq == <<109, 101, 115, 115, 97, 103, 101, 61>>
S_xpath_eq == <<59, 120, 112, 97, 116, 104, 81, 117, 101, 114, 121, 61>>

\* the data dict create_rule posts
CreateData(key, name, description, message, xpath, severity, status, template_key) ==
    [custom_key |-> key,
     name |-> name,
     markdown_description |-> description,
     params |-> S_message_eq \o message \o S_xpath_eq \o xpath,
     severity |-> Upper(severity),
     status |-> Upper(status),
     template_key |-> template_key]

\* responses the server may give to a POST
PostResponses == Responses({200, 400}, {WellFormedBody})

\* responses the server may give to the validation request; valid is the
\* decoded body: {'valid': true}, {'valid': false}, a JSON object without
\* 'valid', or no JSON at all
ValidationResponses ==
    [status_code : {200, 401}, body : {WellFormedBody}, reason : {"reason"},
     valid : {"true", "false", "absent", "not_json"}]

\* res = self._make_call(...).json(); return res.get('valid', False)
ValidateResult(res) ==
    IF make_call(res).kind # "ok" THEN "raised"
    ELSE IF res.valid = "not_json" THEN "ValueError"
    ELSE IF res.valid = "true" THEN "True"
    ELSE "False"

HInit ==
    /\ hpc = "new"
    /\ hargs = [user |-> "", password |-> "", token |-> ""]
    /\ auth = NoAuth
    /\ hcall = [op |-> "none"]
    /\ hreq = [method |-> "", endpoint |-> "", data |-> EmptyDict, auth |-> NoAuth]
    /\ hreqs = 0 /\ hcalls = 0
    /\ hout = [kind |-> "none", msg |-> <<>>]
    /\ hret = "none"

\* SonarAPIHandler(user=..., password=..., token=...)
NewHandler ==
    /\ hpc = "new"
    /\ \E user \in Users, password \in Passwords, token \in Tokens :
        /\ hargs' = [user |-> user, password |-> password, token |-> token]
        /\ auth' = SessionAuth(user, password, token)
    /\ hpc' = "ready"
    /\ UNCHANGED <<hcall, hreq, hreqs, hcalls, hout, hret, cvars, fvars, mvars, kvars, rvars, pvars>>

\* h.activate_rule(key, profile_key, reset, severity, **params): builds the
\* body and hands it to _make_call, which sends it through self._session
ActivateRule ==
    /\ hpc = "ready" /\ hcalls < MaxCalls
    /\ \E reset \in BOOLEAN, severity \in Severities, params \in ParamDicts,
          res \in PostResponses :
        /\ hcall' = [op |-> "activate_rule", key |-> "squid:S1",
                     profile_key |-> "py-prof", reset |-> reset,
                     severity |-> severity, params |-> params]
        /\ hreq' = [method |-> "post",
                    endpoint |-> RULES_ACTIVATION_ENDPOINT,
                    data |-> ActivateData("squid:S1", "py-prof", reset,
                                          severity, params),
                    auth |-> auth]
        /\ hout' = make_call(res)
        /\ hret' = IF make_call(res).kind = "ok" THEN "response" ELSE "raised"
    /\ hreqs' = hreqs + 1
    /\ hcalls' = hcalls + 1
    /\ UNCHANGED <<hpc, hargs, auth, cvars, fvars, mvars, kvars, rvars, pvars>>

\* h.create_rule(key, name, description, message, xpath, severity, status,
\* template_key)
CreateRule ==
    /\ hpc = "ready" /\ hcalls < MaxCalls
    /\ \E message \in ParamValues, xpath \in ParamValues,
          severity \in Severities \ {<<>>}, res \in PostResponses :
        /\ hcall' = [op |-> "create_rule", key |-> "S1", message |-> message,
                     xpath |-> xpath, severity |-> severity]
        /\ hreq' = [method |-> "post",
                    endpoint |-> RULES_CREATE_ENDPOINT,
                    data |-> CreateData("S1", "name", "desc", message, xpath,
                                        severity, S_Ready, "XPath"),
                    auth |-> auth]
        /\ hout' = make_call(res)
        /\ hret' = IF make_call(res).kind = "ok" THEN "response" ELSE "raised"
    /\ hreqs' = hreqs + 1
    /\ hcalls' = hcalls + 1
    /\ UNCHANGED <<hpc, hargs, auth, cvars, fvars, mvars, kvars, rvars, pvars>>

\* h.validate_authentication(): one GET without data through self._session
ValidateAuthentication ==
    /\ hpc = "ready" /\ hcalls < MaxCalls
    /\ \E res \in ValidationResponses :
        /\ hout' = make_call(res)
        /\ hret' = ValidateResult(res)
    /\ hcall' = [op |-> "validate_authentication"]
    /\ hreq' = [method |-> "get",
                endpoint |-> AUTH_VALIDATION_ENDPOINT,
                data |-> EmptyDict,
                auth |-> auth]
    /\ hreqs' = hreqs + 1
    /\ hcalls' = hcalls + 1
    /\ UNCHANGED <<hpc, hargs, auth, cvars, fvars, mvars, kvars, rvars, pvars>>

\* ------------------------------------------------------------------------
\* Commands: migrate_rules.main, activate_rules.main, export_rules.main
\* ------------------------------------------------------------------------
\* items the source (rule fetch or CSV file) hands to one run
MaxItems == 3

\* 400 bodies of the target server, one of them for an existing rule
ExistsError == [has_msg |-> TRUE, msg |-> "Rule S1 already exists"]

\* responses of the target server to one POST
TargetResponses ==
    Responses({200, 400, 401, 404, 500},
              {WellFormedBody,
               [shape |-> "errors", errors |-> <<ExistsError>>],
               [shape |-> "errors",
                errors |-> <<[has_msg |-> TRUE, msg |-> "m2"], ExistsError>>],
               [shape |-> "no_errors", errors |-> <<>>]})

\* 'already exists' in part, on the message texts of the model
ContainsAlreadyExists(part) ==
    CASE part = "Rule S1 already exists" -> TRUE
      [] OTHER -> FALSE

\* 'already exists' in str(e): the text has no ', ', so it lies within one
\* of the joined messages
AlreadyExists(msg) ==
    \E i \in 1..Len(msg) : ContainsAlreadyExists(msg[i])

\* except ValidationError: the handler takes ValidationError and nothing else
IsValidationError(kind) == kind = "ValidationError"

\* what the source fetch can raise while the command iterates it
SourceErrors == {make_call(r) : r \in FailureResponses}

\* fields migrate reads from a rule that has params
MigrateFields == {"key", "name", "mdDesc", "severity", "status", "templateKey"}

\* entries a rule's params list may hold
MaxRuleParams == 2

\* rules the source may yield to migrate: the fields present and the params
\* list, <<>> standing for a missing, None or empty one. An entry of the
\* list may lack 'key' or 'defaultValue'; named tells that its key is
\* 'message' or 'xpathQuery'
MigrateRules ==
    [params : SeqsUpTo({e \in [has_key : BOOLEAN, named : BOOLEAN,
                               has_default : BOOLEAN] : e.named => e.has_key},
                       MaxRuleParams),
     has : SUBSET MigrateFields]

\* the first field of order that the record lacks, "" if it has them all
RECURSIVE FirstMissing(_, _)
FirstMissing(order, has) ==
    IF order = <<>> THEN ""
    ELSE IF Head(order) \notin has THEN Head(order)
    ELSE FirstMissing(Tail(order), has)

\* for p in params: p['key'] is read of every entry, p['defaultValue'] of
\* the entries named message or xpathQuery; the key the loop fails on
RECURSIVE ParamsMissing(_)
ParamsMissing(params) ==
    IF params = <<>> THEN ""
    ELSE IF ~Head(params).has_key THEN "key"
    ELSE IF Head(params).named /\ ~Head(params).has_default THEN "defaultValue"
    ELSE ParamsMissing(Tail(params))

\* the key of the KeyError migrate raises before create_rule is called, in
\* the order the code reads them; "" if it raises none
MigrateMissing(rule) ==
    IF "key" \notin rule.has THEN "key"
    ELSE IF ParamsMissing(rule.params) # "" THEN ParamsMissing(rule.params)
    ELSE FirstMissing(<<"name", "mdDesc", "severity", "status", "templateKey">>,
                      rule.has)

\* fields export reads with rule[...]; the first four go into the CSV row
CsvFields == {"langName", "key", "name", "severity"}
ExportRules == [has : SUBSET (CsvFields \cup {"params"})]

NoItem == [from |-> "none", outcome |-> "none", exc |-> "none", msg |-> <<>>,
           posted |-> FALSE, row |-> FALSE]

Item(from, outcome, e, posted, row) ==
    [from |-> from, outcome |-> outcome, exc |-> e.kind, msg |-> e.msg,
     posted |-> posted, row |-> row]

NoExc == [kind |-> "none", msg |-> <<>>]
KeyErr(field) == [kind |-> "KeyError", msg |-> <<field>>]

\* variant of MigrateItem: an existing rule is counted as failed
MigrateItemNoSkip(rule, res) ==
    IF rule.params = <<>> THEN Item("rule", "ignored", NoExc, FALSE, FALSE)
    ELSE IF MigrateMissing(rule) # ""
        THEN Item("rule", "abort", KeyErr(MigrateMissing(rule)), FALSE, FALSE)
    ELSE LET e == make_call(res)
         IN  IF e.kind = "ok" THEN Item("create", "created", e, TRUE, FALSE)
             ELSE IF IsValidationError(e.kind)
                 THEN Item("create", "failed", e, TRUE, FALSE)
             ELSE Item("create", "abort", e, TRUE, FALSE)

\* variant of MigrateItem: an existing rule is passed over without a count
MigrateItemDropsExisting(rule, res) ==
    IF rule.params = <<>> THEN Item("rule", "ignored", NoExc, FALSE, FALSE)
    ELSE IF MigrateMissing(rule) # ""
        THEN Item("rule", "abort", KeyErr(MigrateMissing(rule)), FALSE, FALSE)
    ELSE LET e == make_call(res)
         IN  IF e.kind = "ok" THEN Item("create", "created", e, TRUE, FALSE)
             ELSE IF IsValidationError(e.kind)
                 THEN IF AlreadyExists(e.msg)
                      THEN Item("create", "ignored", e, TRUE, FALSE)
                      ELSE Item("create", "failed", e, TRUE, FALSE)
             ELSE Item("create", "abort", e, TRUE, FALSE)

\* variant of MigrateItem: every exception of create_rule is a per-rule failure
MigrateItemNeverAborts(rule, res) ==
    IF rule.params = <<>> THEN Item("rule", "ignored", NoExc, FALSE, FALSE)
    ELSE IF MigrateMissing(rule) # ""
        THEN Item("rule", "abort", KeyErr(MigrateMissing(rule)), FALSE, FALSE)
    ELSE LET e == make_call(res)
         IN  IF e.kind = "ok" THEN Item("create", "created", e, TRUE, FALSE)
             ELSE IF IsValidationError(e.kind) /\ AlreadyExists(e.msg)
                 THEN Item("create", "skipped", e, TRUE, FALSE)
             ELSE Item("create", "failed", e, TRUE, FALSE)

\* body of migrate's for loop on one rule, res being the target's response
\* if create_rule gets to send its request
MigrateItem(rule, res) ==
    IF rule.params = <<>> THEN Item("rule", "ignored", NoExc, FALSE, FALSE)
    ELSE IF MigrateMissing(rule) # ""
        THEN Item("rule", "abort", KeyErr(MigrateMissing(rule)), FALSE, FALSE)
    ELSE LET e == make_call(res)
         IN  IF e.kind = "ok" THEN Item("create", "created", e, TRUE, FALSE)
             ELSE IF IsValidationError(e.kind)
                 THEN IF AlreadyExists(e.msg)
                      THEN Item("create", "skipped", e, TRUE, FALSE)
                      ELSE Item("create", "failed", e, TRUE, FALSE)
             ELSE Item("create", "abort", e, TRUE, FALSE)

\* body of activate's for loop on one CSV row, res being the server's
\* response if activate_rule gets to send its request: None.lower() and a
\* None keyword raise before it
ActivateItem(row, res) ==
    IF row.reset = "none"
        THEN Item("rule", "abort", [kind |-> "AttributeError", msg |-> <<>>],
                  FALSE, FALSE)
    ELSE IF row.extra
        THEN Item("rule", "abort", [kind |-> "TypeError", msg |-> <<>>],
                  FALSE, FALSE)
    ELSE LET e == make_call(res)
         IN  IF e.kind = "ok" THEN Item("activate", "activated", e, TRUE, FALSE)
             ELSE IF IsValidationError(e.kind)
                 THEN Item("activate", "failed", e, TRUE, FALSE)
             ELSE Item("activate", "abort", e, TRUE, FALSE)

\* body of export's for loop on one rule: the CSV row is written once its
\* four fields are read, rule['params'] is read after that
ExportItem(rule) ==
    IF ~(CsvFields \subseteq rule.has)
        THEN Item("rule", "failed",
                  KeyErr(FirstMissing(<<"langName", "key", "name", "severity">>,
                                      rule.has)),
                  FALSE, FALSE)
    ELSE IF "params" \notin rule.has
        THEN Item("rule", "failed", KeyErr("params"), FALSE, TRUE)
    ELSE Item("rule", "exported", NoExc, FALSE, TRUE)

Summary(status, counters) == [status |-> status, counters |-> counters]

ErrorLine == [kind |-> "Error"]
FailedLine == [kind |-> "Failed"]

KInit ==
    /\ kcmd = "none" /\ kpc = "init"
    /\ cnt = [k \in {} |-> 0]
    /\ stdout = <<>> /\ stderr = <<>> /\ csv = <<>>
    /\ kposts = 0 /\ kn = 0 /\ kattempt = 0
    /\ klast = NoItem

\* except Exception: one error line, status Incomplete, then the summary
Abort(item) ==
    /\ klast' = item
    /\ stderr' = Append(stderr, ErrorLine)
    /\ stdout' = Append(stdout, Summary("Incomplete", cnt))
    /\ kpc' = "done"
    /\ UNCHANGED cnt

\* the loop ran to its end: status Complete, then the summary
Finish ==
    /\ kpc = "loop"
    /\ stdout' = Append(stdout, Summary("Complete", cnt))
    /\ kpc' = "done"
    /\ UNCHANGED <<kcmd, cnt, stderr, csv, kposts, kn, kattempt, klast>>

\* migrate_rules.main up to the loop
MigrateMain ==
    /\ kpc = "init"
    /\ kcmd' = "migrate" /\ kpc' = "loop"
    /\ cnt' = [c |-> 0, s |-> 0, f |-> 0]
    /\ UNCHANGED <<stdout, stderr, csv, kposts, kn, kattempt, klast, cvars, fvars, mvars, hvars, rvars, pvars>>

\* one iteration of migrate's loop: the source yields a rule or raises
MigrateRule ==
    /\ kcmd = "migrate" /\ kpc = "loop" /\ kn < MaxItems
    /\ kn' = kn + 1
    /\ \/ \E e \in SourceErrors :
            /\ Abort(Item("source", "abort", e, FALSE, FALSE))
            /\ UNCHANGED <<kposts, kattempt>>
       \/ \E rule \in MigrateRules :
           \E res \in IF rule.params # <<>> /\ MigrateMissing(rule) = ""
                      THEN TargetResponses ELSE {OkResponse} :
            LET item == MigrateItem(rule, res)
            IN  /\ kposts' = IF item.posted THEN kposts + 1 ELSE kposts
                /\ kattempt' = IF rule.params # <<>> THEN kattempt + 1
                               ELSE kattempt
                /\ CASE item.outcome = "created" ->
                            /\ cnt' = [cnt EXCEPT !.c = @ + 1]
                            /\ klast' = item
                            /\ UNCHANGED <<stderr, stdout, kpc>>
                     [] item.outcome = "skipped" ->
                            /\ cnt' = [cnt EXCEPT !.s = @ + 1]
                            /\ klast' = item
                            /\ UNCHANGED <<stderr, stdout, kpc>>
                     [] item.outcome = "failed" ->
                            /\ cnt' = [cnt EXCEPT !.f = @ + 1]
                            /\ stderr' = Append(stderr, FailedLine)
                            /\ klast' = item
                            /\ UNCHANGED <<stdout, kpc>>
                     [] item.outcome = "ignored" ->
                            /\ klast' = item
                            /\ UNCHANGED <<cnt, stderr, stdout, kpc>>
                     [] OTHER -> Abort(item)
    /\ UNCHANGED <<kcmd, csv, cvars, fvars, mvars, hvars, rvars, pvars>>

\* the source is exhausted
MigrateEnd ==
    /\ kcmd = "migrate"
    /\ Finish
    /\ UNCHANGED <<cvars, fvars, mvars, hvars, rvars, pvars>>

\* activate_rules.main up to the loop; open() is inside the try
ActivateMain ==
    /\ kpc = "init"
    /\ kcmd' = "activate"
    /\ \E openable \in BOOLEAN :
        IF openable
        THEN /\ kpc' = "loop"
             /\ cnt' = [a |-> 0, f |-> 0]
             /\ UNCHANGED <<stdout, stderr, klast>>
        ELSE /\ klast' = Item("open", "abort", [kind |-> "IOError", msg |-> <<>>],
                              FALSE, FALSE)
             /\ cnt' = [a |-> 0, f |-> 0]
             /\ stderr' = Append(stderr, ErrorLine)
             /\ stdout' = Append(stdout, Summary("Incomplete", [a |-> 0, f |-> 0]))
             /\ kpc' = "done"
    /\ UNCHANGED <<csv, kposts, kn, kattempt, cvars, fvars, mvars, hvars, rvars, pvars>>

\* one iteration of activate's loop: the reader raises (csv.Error, or
\* UnicodeDecodeError on a file that is not UTF-8) or yields a row. In the
\* row, reset is "absent" without such a column, "none" in a row that ends
\* before it, else "text"; extra tells that the row has more fields than
\* the header (kept under the key None)
ActivateRow ==
    /\ kcmd = "activate" /\ kpc = "loop" /\ kn < MaxItems
    /\ kn' = kn + 1
    /\ \/ \E kind \in {"csv.Error", "UnicodeDecodeError"} :
            /\ Abort(Item("source", "abort", [kind |-> kind, msg |-> <<>>],
                          FALSE, FALSE))
            /\ UNCHANGED <<kposts, kattempt>>
       \/ \E row \in {r \in [reset : {"absent", "none", "text"}, extra : BOOLEAN] :
                            r.reset = "none" => ~r.extra} :
           \E res \in IF row.reset # "none" /\ ~row.extra
                      THEN TargetResponses ELSE {OkResponse} :
            LET item == ActivateItem(row, res)
            IN  /\ kposts' = IF item.posted THEN kposts + 1 ELSE kposts
                /\ kattempt' = kattempt + 1
                /\ CASE item.outcome = "activated" ->
                            /\ cnt' = [cnt EXCEPT !.a = @ + 1]
                            /\ klast' = item
                            /\ UNCHANGED <<stderr, stdout, kpc>>
                     [] item.outcome = "failed" ->
                            /\ cnt' = [cnt EXCEPT !.f = @ + 1]
                            /\ stderr' = Append(stderr, FailedLine)
                            /\ klast' = item
                            /\ UNCHANGED <<stdout, kpc>>
                     [] OTHER -> Abort(item)
    /\ UNCHANGED <<kcmd, csv, cvars, fvars, mvars, hvars, rvars, pvars>>

\* the CSV file is exhausted
ActivateEnd ==
    /\ kcmd = "activate"
    /\ Finish
    /\ UNCHANGED <<cvars, fvars, mvars, hvars, rvars, pvars>>

\* export_rules.main up to the loop; the two open() calls are outside the
\* try, so a file that cannot be opened ends main with the exception
ExportMain ==
    /\ kpc = "init"
    /\ kcmd' = "export"
    /\ \E openable \in BOOLEAN :
        IF openable
        THEN /\ kpc' = "loop"
             /\ cnt' = [s |-> 0, f |-> 0]
             /\ csv' = <<"header">>
             /\ UNCHANGED <<stderr, klast>>
        ELSE /\ klast' = Item("open", "abort", [kind |-> "IOError", msg |-> <<>>],
                              FALSE, FALSE)
             /\ stderr' = Append(stderr, [kind |-> "Traceback"])
             /\ kpc' = "crashed"
             /\ UNCHANGED <<cnt, csv>>
    /\ UNCHANGED <<stdout, kposts, kn, kattempt, cvars, fvars, mvars, hvars, rvars, pvars>>

\* one iteration of export's loop: the source yields a rule or raises
ExportRule ==
    /\ kcmd = "export" /\ kpc = "loop" /\ kn < MaxItems
    /\ kn' = kn + 1
    /\ \/ \E e \in SourceErrors :
            /\ Abort(Item("source", "abort", e, FALSE, FALSE))
            /\ UNCHANGED <<csv, kattempt>>
       \/ \E rule \in ExportRules :
            LET item == ExportItem(rule)
            IN  /\ csv' = IF item.row THEN Append(csv, kn + 1) ELSE csv
                /\ klast' = item
                /\ kattempt' = kattempt + 1
                /\ IF item.outcome = "exported"
                   THEN /\ cnt' = [cnt EXCEPT !.s = @ + 1]
                        /\ UNCHANGED stderr
                   ELSE /\ cnt' = [cnt EXCEPT !.f = @ + 1]
                        /\ stderr' = Append(stderr, ErrorLine)
                /\ UNCHANGED <<stdout, kpc>>
    /\ UNCHANGED <<kcmd, kposts, cvars, fvars, mvars, hvars, rvars, pvars>>

\* the source is exhausted
ExportEnd ==
    /\ kcmd = "export"
    /\ Finish
    /\ UNCHANGED <<cvars, fvars, mvars, hvars, rvars, pvars>>

\* ------------------------------------------------------------------------
\* get_resources_metrics called on a caller's metrics object
\* ------------------------------------------------------------------------
\* names in the caller's metrics list
MaxMetrics == 2

\* a name is a sequence of text pieces, a joined string likewise
GENERAL_METRICS ==
    << <<"sqale_index">>, <<"sqale_debt_ratio">>,
       <<"violations">>, <<"blocker_violations">>, <<"critical_violations">>,
       <<"major_violations">>, <<"minor_violations">>,
       <<"lines_to_cover">>, <<"conditions_to_cover">>, <<"uncovered_lines">>,
       <<"uncovered_conditions">>, <<"coverage">> >>

MetricNames == {<<"coverage">>, <<"ncloc">>}

\* contents of the object the caller holds
MetricLists == SeqsUpTo(MetricNames, MaxMetrics)

\* what the caller passes as metrics: nothing, its list, or a tuple of the
\* same names
MetricsKinds == {"none", "list", "tuple"}

ResourcesArgs ==
    [kind : MetricsKinds, resource : {"", "wow:lala"},
     include_trends : BOOLEAN, include_modules : BOOLEAN]

\* 'new_{}'.format(m)
NewName(m) == <<"new_">> \o m

\* the object bound to `metrics` after `if not metrics: metrics = GENERAL_METRICS`
Selected(args, content) ==
    IF args.kind = "none" \/ content = <<>> THEN GENERAL_METRICS ELSE content

\* has the object bound to `metrics` an extend method: only a non-empty list
\* of the caller has, the default and a caller's tuple are tuples
HasExtend(args, content) == args.kind = "list" /\ content # <<>>

\* metrics.extend(...) raises AttributeError on a tuple
ExtendRaises(args, content) == args.include_trends /\ ~HasExtend(args, content)

\* the names joined into params['metrics']: with include_trends the object
\* is extended by the new_ name of each of its names
FinalMetrics(args, content) ==
    LET sel == Selected(args, content)
    IN  IF args.include_trends
        THEN sel \o [i \in 1..Len(sel) |-> NewName(sel[i])]
        ELSE sel

\* the caller's object after the body has run: a list is extended in place
ListAfter(args, content) ==
    IF args.include_trends /\ HasExtend(args, content)
    THEN FinalMetrics(args, content)
    ELSE content

\* the params dict of get_resources_metrics
ResourcesParams(args, content) ==
    LET p0 == EmptyDict
        p1 == IF args.resource # "" THEN Put(p0, "resource", args.resource) ELSE p0
        p2 == IF args.include_trends THEN Put(p1, "includetrends", "true") ELSE p1
        p3 == IF args.include_modules THEN Put(p2, "qualifiers", "TRK,BRC") ELSE p2
    IN  Put(p3, "metrics", JoinStr(<<",">>, FinalMetrics(args, content)))

NoResourcesCall == [args |-> [kind |-> "none", resource |-> "",
                              include_trends |-> FALSE, include_modules |-> FALSE],
                    before |-> <<>>, reqs |-> <<>>, err |-> "none"]

RInit ==
    /\ rpc = "nocall"
    /\ rlist \in MetricLists
    /\ rlist0 = rlist
    /\ rcur = NoResourcesCall
    /\ rprev = NoResourcesCall
    /\ rcalls = 0

\* the other specifications hold no metrics object
RQuiet == RInit /\ rlist = <<>>

\* h.get_resources_metrics(resource, metrics, include_trends,
\* include_modules): creates the generator, runs none of its body
GetResourcesMetrics ==
    /\ rpc \in {"nocall", "done", "raised"}
    /\ rcalls < MaxCalls
    /\ \E args \in ResourcesArgs :
          rcur' = [args |-> args, before |-> rlist, reqs |-> <<>>, err |-> "none"]
    /\ rprev' = rcur
    /\ rcalls' = rcalls + 1
    /\ rpc' = "created"
    /\ UNCHANGED <<rlist, rlist0, pvars, cvars, fvars, mvars, hvars, kvars>>

\* first next(): metrics.extend raises before any request is made
ResourcesExtendRaise ==
    /\ rpc = "created"
    /\ ExtendRaises(rcur.args, rlist)
    /\ rcur' = [rcur EXCEPT !.err = "AttributeError"]
    /\ rpc' = "raised"
    /\ UNCHANGED <<rlist, rlist0, rprev, rcalls, pvars, cvars, fvars, mvars,
                   hvars, kvars>>

\* first next(): the params are built and the one request is made; the
\* records of the response are not followed further
ResourcesRequest ==
    /\ rpc = "created"
    /\ ~ExtendRaises(rcur.args, rlist)
    /\ rlist' = ListAfter(rcur.args, rlist)
    /\ \E res \in MergeFailures \cup {OkResponse} :
          LET e == make_call(res)
          IN  /\ rcur' = [rcur EXCEPT
                             !.reqs = Append(@, [endpoint |-> RESOURCES_ENDPOINT,
                                                 params |-> ResourcesParams(rcur.args, rlist)]),
                             !.err = IF e.kind = "ok" THEN "none" ELSE e.kind]
              /\ rpc' = IF e.kind = "ok" THEN "done" ELSE "raised"
    /\ UNCHANGED <<rlist0, rprev, rcalls, pvars, cvars, fvars, mvars, hvars, kvars>>

\* ------------------------------------------------------------------------
\* Two paginated generators of one handler, pulled in any order
\* ------------------------------------------------------------------------
\* the calls the two generators are created by
PairCalls ==
    {[NoCall EXCEPT !.fn = "get_metrics"],
     [NoCall EXCEPT !.fn = "get_rules"],
     [NoCall EXCEPT !.fn = "get_rules", !.active_only = TRUE, !.custom_only = TRUE]}

\* failure responses the transport may hand back to one of them
PairFailures == Responses({401, 500}, {WellFormedBody})

\* the frame of a generator: its locals, what it has requested and yielded,
\* and how its latest next() ended
NewGen(call) ==
    [pc |-> "created", call |-> call, qs |-> EmptyDict,
     page_num |-> 0, page_size |-> 0, n_total |-> 0, buf |-> <<>>,
     reqs |-> <<>>, yielded |-> <<>>, last |-> "none", err |-> "none"]

NoGen == [NewGen(NoCall) EXCEPT !.pc = "nocall"]

\* variant of QsOf: one queryset for all generators of the handler
QsOfFirst(gs, g) == gs[1].qs

\* the queryset a generator sends: the local qs of its own frame
QsOf(gs, g) == gs[g].qs

\* first next(): the body starts at its top
StartBody(gen) ==
    [gen EXCEPT !.qs = BuildQs(gen.call),
                !.page_num = 1, !.page_size = 1, !.n_total = 2]

\* variant of EndedPull: the body is run again from its top
EndedPullRestart(gen) == [StartBody(gen) EXCEPT !.pc = "created"]

\* next() on a generator that has returned or raised: StopIteration
EndedPull(gen) == [gen EXCEPT !.last = "stop"]

\* the body from where it stands to its next yield, its end, or the
\* exception of a failed request; fail holds the failure of the next
\* request, kind "ok" if it succeeds
RECURSIVE RunBody(_, _, _, _, _)
RunBody(gs, g, srv, fail, fuel) ==
    LET gen == gs[g]
    IN  IF gen.buf # <<>>
        THEN [gen EXCEPT !.yielded = Append(@, Head(gen.buf)),
                         !.buf = Tail(@), !.pc = "suspended", !.last = "item"]
        ELSE IF ~LoopCond(gen.page_num, gen.page_size, gen.n_total) \/ fuel = 0
        THEN [gen EXCEPT !.pc = "done", !.last = "stop"]
        ELSE LET q == QsOf(gs, g)
                 sent == [gen EXCEPT !.reqs = Append(@, [endpoint |-> Endpoint(gen.call),
                                                        qs |-> q])]
             IN  IF fail.kind # "ok"
                 THEN [sent EXCEPT !.pc = "raised", !.last = "error",
                                   !.err = fail.kind]
                 ELSE LET env == HonestPage(srv.N, srv.S, RequestedPage(q))
                          got == [sent EXCEPT !.page_num = env.p,
                                              !.page_size = env.ps,
                                              !.n_total = env.total,
                                              !.qs = NextPageQs(gen.qs, env.p),
                                              !.buf = env.items]
                      IN  RunBody([gs EXCEPT ![g] = got], g, srv,
                                  [kind |-> "ok", msg |-> <<>>], fuel - 1)

PInit ==
    /\ pserver \in {[N |-> N, S |-> S] : N \in 0..MaxN, S \in 1..MaxN}
    /\ gens = [g \in 1..2 |-> NoGen]

\* the other specifications run no pair of generators
PQuiet == PInit /\ pserver = [N |-> 0, S |-> 1]

\* h.get_metrics(...) / h.get_rules(...): creates a generator
PairCall ==
    /\ \E g \in 1..2, call \in PairCalls :
          /\ gens[g].pc = "nocall"
          /\ gens' = [gens EXCEPT ![g] = NewGen(call)]
    /\ UNCHANGED <<pserver, rvars, cvars, fvars, mvars, hvars, kvars>>

\* next() on a generator that is created or suspended
PairPull ==
    /\ \E g \in 1..2 :
          /\ gens[g].pc \in {"created", "suspended"}
          /\ \E fail \in {make_call(res) : res \in PairFailures \cup {OkResponse}} :
                LET gs == IF gens[g].pc = "created"
                          THEN [gens EXCEPT ![g] = StartBody(gens[g])]
                          ELSE gens
                IN  gens' = [gens EXCEPT ![g] = RunBody(gs, g, pserver, fail,
                                                        MaxRequests)]
    /\ UNCHANGED <<pserver, rvars, cvars, fvars, mvars, hvars, kvars>>

\* next() on a generator that has ended
PairPullEnded ==
    /\ \E g \in 1..2 :
          /\ gens[g].pc \in {"done", "raised"}
          /\ gens' = [gens EXCEPT ![g] = EndedPull(gens[g])]
    /\ UNCHANGED <<pserver, rvars, cvars, fvars, mvars, hvars, kvars>>

\* ------------------------------------------------------------------------
\* Specifications
\* ------------------------------------------------------------------------
CQuiet == /\ cpc = "idle"
          /\ cres = OkResponse
          /\ cout = [kind |-> "none", msg |-> <<>>]

FQuiet == /\ FInit
          /\ server = [mode |-> "any", N |-> 0, S |-> 0]

\* _make_call alone, on every response
ClassifyNext == MakeCallReturn \/ MakeCallRaise

ClassifyInit == CInit /\ FQuiet /\ MInit /\ HInit /\ KInit /\ RQuiet /\ PQuiet

SpecClassify == ClassifyInit /\ [][ClassifyNext]_vars

\* one paginated fetch against one server
FetchNext ==
    \/ GetMetrics \/ GetRules
    \/ PullFirst \/ PullNext
    \/ FetchPage \/ FetchFail
    \/ YieldItem \/ FetchEnd

FetchInit == CQuiet /\ FInit /\ MInit /\ HInit /\ KInit /\ RQuiet /\ PQuiet

SpecFetch == FetchInit /\ [][FetchNext]_vars

\* one get_resources_full_data generator
MergeStep ==
    \/ GetResourcesFullData
    \/ MergeArgsRaise \/ MergeMetricsFail \/ MergeDebtFail
    \/ MergeFirst \/ MergeNext

MergeInit == CQuiet /\ FQuiet /\ MInit /\ HInit /\ KInit /\ RQuiet /\ PQuiet

SpecMerge == MergeInit /\ [][MergeStep]_vars

\* one handler: construction, then activate_rule / create_rule calls
HandlerNext == NewHandler \/ ActivateRule \/ CreateRule \/ ValidateAuthentication

HandlerInit == CQuiet /\ FQuiet /\ MInit /\ HInit /\ KInit /\ RQuiet /\ PQuiet

SpecHandler == HandlerInit /\ [][HandlerNext]_vars

\* one run of one of the three commands
CmdNext ==
    \/ MigrateMain \/ MigrateRule \/ MigrateEnd
    \/ ActivateMain \/ ActivateRow \/ ActivateEnd
    \/ ExportMain \/ ExportRule \/ ExportEnd

CmdInit == CQuiet /\ FQuiet /\ MInit /\ HInit /\ KInit /\ RQuiet /\ PQuiet

SpecCmd == CmdInit /\ [][CmdNext]_vars

\* get_resources_metrics called again and again on one metrics object
ResourcesNext == GetResourcesMetrics \/ ResourcesExtendRaise \/ ResourcesRequest

ResourcesInit == CQuiet /\ FQuiet /\ MInit /\ HInit /\ KInit /\ RInit /\ PQuiet

SpecResources == ResourcesInit /\ [][ResourcesNext]_vars

\* two generators of one handler against one honest server
PairNext == PairCall \/ PairPull \/ PairPullEnded

PairInit == CQuiet /\ FQuiet /\ MInit /\ HInit /\ KInit /\ RQuiet /\ PInit

SpecPair == PairInit /\ [][PairNext]_vars

\* ------------------------------------------------------------------------
\* Properties
\* ------------------------------------------------------------------------
Max(a, b) == IF a > b THEN a ELSE b

CeilDiv(a, b) == (a + b - 1) \div b

\* C1: a fetch run to its end against an honest server holding N items in
\* pages of size S has issued max(1, ceil(N/S)) requests and has yielded
\* exactly items 1..N, in the order the pages carried them.
C1_HonestFetch ==
    (fpc = "done" /\ server.mode = "honest") =>
        /\ nreq = Max(1, CeilDiv(server.N, server.S))
        /\ yielded = Interval(1, server.N)
        /\ yielded = received

C1_Witness ==
    /\ fpc = "done" /\ server.mode = "honest"
    /\ server.N = 3 /\ server.S = 2
    /\ nreq = 2 /\ Len(yielded) = 3

\* C2: when the first response reports total 0 with an empty item list,
\* whatever page number and page size it reports, that request stays the only
\* one, nothing is ever yielded, and the pull that made it ends the sequence.
C2_EmptyFirstResponse ==
    first_empty =>
        /\ nreq = 1
        /\ yielded = <<>>
        /\ fpc \in {"running", "done"}
        /\ fpc = "running" => (buf = <<>> /\ ENABLED FetchEnd /\ ~ENABLED FetchPage)

C2_Witness ==
    /\ first_empty /\ fpc = "done"
    /\ page_size = MaxN /\ nreq = 1 /\ yielded = <<>>

\* C3: a non-success answer to the k-th request makes the generator raise
\* at once with the classified error of that status (ValidationError for
\* 400, AuthError for 401 and 403, ClientError for another 4xx, ServerError
\* from 500 on, one of the four in any case); all items of the pages
\* received before have been delivered, in order, and nothing of a later
\* page is delivered.
C3_FailurePropagates ==
    /\ (fstatus >= 300) <=> (fpc = "raised")
    /\ fpc = "raised" =>
          /\ ferr \in {"ValidationError", "AuthError", "ClientError",
                       "ServerError"}
          /\ fstatus = 400 => ferr = "ValidationError"
          /\ fstatus \in {401, 403} => ferr = "AuthError"
          /\ (fstatus \in 402..499 \ {403}) => ferr = "ClientError"
          /\ fstatus >= 500 => ferr = "ServerError"
          /\ yielded = received
          /\ buf = <<>>
          /\ ~ENABLED FetchNext

\* ---- get_resources_full_data ----
Count(list, k) == Cardinality({i \in 1..Len(list) : list[i].key = k})

RecordOf(list, k) == list[CHOOSE i \in 1..Len(list) : list[i].key = k]

KeysOf(list) == {list[i].key : i \in 1..Len(list)}

MergeDone == mpc = "done" /\ merr = "none"

\* C4: the records emitted so far are in strictly ascending order of their
\* key, whatever the order of the two responses.
C4_SortedByKey ==
    \A i, j \in 1..Len(emitted) :
        i < j => StrLess(emitted[i].key, emitted[j].key)

C4_Witness ==
    /\ MergeDone /\ Len(emitted) = 3
    /\ Len(mresp) = 2 /\ StrLess(mresp[2].key, mresp[1].key)
    /\ Len(dresp) = 1 /\ StrLess(dresp[1].key, mresp[2].key)
    /\ emitted[2].key = <<1, 2>>

\* C5: for a key carried by one metrics record and one debt record, the
\* merged msr is the metrics record's msr followed by the debt record's msr.
C5_MsrConcatenated ==
    MergeDone =>
        \A k \in Keys :
            (Count(mresp, k) = 1 /\ Count(dresp, k) = 1) =>
                RecordOf(emitted, k).msr
                    = RecordOf(mresp, k).msr \o RecordOf(dresp, k).msr

C5_Witness ==
    /\ MergeDone
    /\ \E k \in Keys :
          /\ Count(mresp, k) = 1 /\ Count(dresp, k) = 1
          /\ RecordOf(mresp, k).msr = <<"coverage">>
          /\ RecordOf(dresp, k).msr = <<"sqale_index", "coverage">>
          /\ RecordOf(emitted, k).msr = <<"coverage", "sqale_index", "coverage">>

\* C6: the emitted keys are the union of the keys of both responses, one
\* record per key; a key of one debt record and no metrics record is
\* emitted as that debt record, a key of one metrics record and no debt
\* record as that metrics record.
C6_NoResourceDropped ==
    MergeDone =>
        /\ KeysOf(emitted) = KeysOf(mresp) \cup KeysOf(dresp)
        /\ \A k \in KeysOf(emitted) : Count(emitted, k) = 1
        /\ \A k \in Keys :
              /\ (Count(dresp, k) = 1 /\ Count(mresp, k) = 0) =>
                    RecordOf(emitted, k) = RecordOf(dresp, k)
              /\ (Count(mresp, k) = 1 /\ Count(dresp, k) = 0) =>
                    RecordOf(emitted, k) = RecordOf(mresp, k)

C6_Witness ==
    /\ MergeDone
    /\ Len(mresp) = 2 /\ Len(dresp) = 1
    /\ \E k1, k2 \in Keys :
          /\ Count(mresp, k1) = 1 /\ Count(dresp, k1) = 0
          /\ Count(mresp, k2) = 0 /\ Count(dresp, k2) = 1
          /\ RecordOf(emitted, k1) = RecordOf(mresp, k1)
          /\ RecordOf(emitted, k2) = dresp[1]
    /\ Len(emitted) = 3

\* C7: for a key carried by one metrics record and one debt record, the
\* merged record has the metrics record's key and name.
C7_FirstSeenFields ==
    MergeDone =>
        \A k \in Keys :
            (Count(mresp, k) = 1 /\ Count(dresp, k) = 1) =>
                /\ RecordOf(emitted, k).name = RecordOf(mresp, k).name
                /\ RecordOf(emitted, k).key = RecordOf(mresp, k).key

C7_Witness ==
    /\ MergeDone
    /\ \E k \in Keys :
          /\ Count(mresp, k) = 1 /\ Count(dresp, k) = 1
          /\ RecordOf(mresp, k).name = "n1"
          /\ RecordOf(dresp, k).name = "n2"
          /\ RecordOf(emitted, k).name = "n1"

\* C8: with an empty debt response, a metrics response of records with
\* pairwise different keys is emitted record for record, unchanged, in
\* some order.
C8_EmptyDebtIdentity ==
    (MergeDone /\ dresp = <<>> /\ \A k \in KeysOf(mresp) : Count(mresp, k) = 1) =>
        /\ Len(emitted) = Len(mresp)
        /\ Range(emitted) = Range(mresp)

C8_Witness ==
    /\ MergeDone /\ dresp = <<>>
    /\ Len(mresp) = 3 /\ Cardinality(KeysOf(mresp)) = 3
    /\ emitted # mresp
    /\ mresp[1].name = mresp[2].name

\* ---- _make_call ----
\* C9: by status code alone: below 300 the response is returned, 400 raises
\* ValidationError, 401 and 403 raise AuthError, 500 and above raise
\* ServerError, every other code raises ClientError.
C9_StatusAlone ==
    cpc # "idle" =>
        /\ (cres.status_code < 300) <=> (cpc = "returned" /\ cout.kind = "ok")
        /\ cres.status_code = 400 => cout.kind = "ValidationError"
        /\ cres.status_code \in {401, 403} => cout.kind = "AuthError"
        /\ cres.status_code >= 500 => cout.kind = "ServerError"
        /\ cout.kind \in {"ok", "ValidationError", "AuthError", "ServerError",
                          "ClientError"}

\* C10: ClientError is raised exactly for the status codes strictly between
\* 400 and 500 other than 401 and 403.
C10_ClientErrorRange ==
    cpc # "idle" =>
        ((cout.kind = "ClientError") <=>
            (/\ cres.status_code > 400 /\ cres.status_code < 500
             /\ cres.status_code \notin {401, 403}))

\* C11: every non-success response, whatever its body, makes _make_call
\* raise one of ValidationError, AuthError, ClientError, ServerError.
C11_TypedFailureOnly ==
    (cpc # "idle" /\ cres.status_code >= 300) =>
        /\ cpc = "raised"
        /\ cout.kind \in {"ValidationError", "AuthError", "ClientError",
                          "ServerError"}

\* C12: the message of a ValidationError raised for a status-400 response
\* is the msg of every error object of the body, in list order, with the
\* separator ", " between neighbours.
C12_MessageJoined ==
    (cpc = "raised" /\ cout.kind = "ValidationError") =>
        LET es == cres.body.errors
            n == Len(es)
        IN  /\ cres.status_code = 400
            /\ Len(cout.msg) = IF n = 0 THEN 0 ELSE 2 * n - 1
            /\ \A i \in 1..n : cout.msg[2 * i - 1] = es[i].msg
            /\ \A i \in 1..(n - 1) : cout.msg[2 * i] = ", "

C12_Witness ==
    /\ cpc = "raised" /\ cout.kind = "ValidationError"
    /\ Len(cres.body.errors) = 2
    /\ cres.body.errors[1].msg = "m2" /\ cres.body.errors[2].msg = "m1"
    /\ cout.msg = <<"m2", ", ", "m1">>

\* C19: the first request of a fetch carries the base query and no 'p';
\* every later request carries the base query plus 'p' = the page number
\* reported by the response before it, plus one.
C19_PageParameter ==
    [][nreq' = nreq + 1 =>
          /\ lastreq'.endpoint = Endpoint(fcall)
          /\ lastreq'.qs = IF nreq = 0 THEN BuildQs(fcall)
                           ELSE Put(BuildQs(fcall), "p", page_num + 1)]_vars

C19_Witness ==
    /\ server.mode = "any" /\ fcall.fn = "get_rules"
    /\ nreq = 3
    /\ "p" \in DOMAIN lastreq.qs /\ lastreq.qs["p"] = 1
    /\ lastreq.qs["is_template"] = "no"

\* C20 as claimed: whatever envelopes the server returns, once as many
\* requests as the reported total have been made the loop test is false.
C20_BoundedByTotal ==
    (fpc = "running" /\ fstatus = 200 /\ nreq >= Max(1, n_total)) =>
        ~LoopCond(page_num, page_size, n_total)

\* C20 as amended: against a server that answers honestly (the page asked
\* for, page size S >= 1, total N) the loop test is false after
\* max(1, ceil(N/S)) requests, and no more than max(1, N) are ever made.
C20_HonestTerminates ==
    server.mode = "honest" =>
        /\ nreq <= Max(1, server.N)
        /\ (fstatus = 200 /\ nreq = Max(1, CeilDiv(server.N, server.S))) =>
              ~LoopCond(page_num, page_size, n_total)

C20_Witness ==
    /\ server.mode = "honest" /\ server.N = MaxN /\ server.S = 1
    /\ nreq = MaxN /\ fpc = "done" /\ Len(yielded) = MaxN

\* C13: activate_rule sends exactly one POST; with reset its body holds only
\* rule_key, profile_key and reset = 'true', whatever severity and params
\* were passed; without reset it holds reset = 'false' and the upper-cased
\* severity exactly when a non-empty severity was given.
C13_ResetDropsAll ==
    (hpc = "ready" /\ hcall.op = "activate_rule") =>
        LET data == hreq.data
            sev == hcall.severity
        IN  /\ hreqs = hcalls
            /\ hreq.method = "post"
            /\ hreq.endpoint = RULES_ACTIVATION_ENDPOINT
            /\ data["rule_key"] = hcall.key
            /\ data["profile_key"] = hcall.profile_key
            /\ IF hcall.reset
               THEN /\ DOMAIN data = {"rule_key", "profile_key", "reset"}
                    /\ data["reset"] = "true"
               ELSE /\ data["reset"] = "false"
                    /\ "severity" \in DOMAIN data <=> sev # <<>>
                    /\ sev # <<>> =>
                          /\ Len(data["severity"]) = Len(sev)
                          /\ \A i \in 1..Len(sev) :
                                /\ data["severity"][i] \notin 97..122
                                /\ data["severity"][i] \in {sev[i], sev[i] - 32}

C13_Witness ==
    /\ hcall.op = "activate_rule" /\ hcall.reset
    /\ hcall.severity = S_major
    /\ hcall.params = <<<<(<<97>>), (<<49>>)>>>>
    /\ DOMAIN hreq.data = {"rule_key", "profile_key", "reset"}
    /\ hreqs = 1

\* the least-named pair of a non-empty set of (name, value) pairs
LeastItem(S) == CHOOSE p \in S : \A q \in S \ {p} : StrLess(p[1], q[1])

\* name=value of every pair of S, by increasing name, with ';' between
RECURSIVE Serialised(_)
Serialised(S) ==
    IF S = {} THEN <<>>
    ELSE LET p == LeastItem(S)
             rest == Serialised(S \ {p})
         IN  p[1] \o <<61>> \o p[2] \o (IF S = {p} THEN <<>> ELSE <<59>> \o rest)

\* C14: without reset, the params entry of the body is the name=value pairs
\* of the parameters with a non-empty value, sorted by name and joined by
\* ';' (a function of the set of pairs, not of their order), and the entry
\* is absent when no parameter has a non-empty value.
C14_ParamsSerialised ==
    (hpc = "ready" /\ hcall.op = "activate_rule" /\ ~hcall.reset) =>
        LET kept == {p \in Range(hcall.params) : p[2] # <<>>}
        IN  IF kept = {} THEN "params" \notin DOMAIN hreq.data
            ELSE /\ "params" \in DOMAIN hreq.data
                 /\ hreq.data["params"] = Serialised(kept)

\* passed as b=1, B=1: posted as 'B=1;b=1'
C14_Witness ==
    /\ hcall.op = "activate_rule" /\ ~hcall.reset
    /\ hcall.params = << <<(<<98>>), (<<49>>)>>, <<(<<66>>), (<<49>>)>> >>
    /\ hreq.data["params"] = <<66, 61, 49, 59, 98, 61, 49>>

\* C18: once constructed, the handler's credential is the token with an
\* empty password if a token was given, else the user/password pair if both
\* were given, else none, after any sequence of operations; and every
\* request carries that credential.
C18_CredentialFixed ==
    hpc = "ready" =>
        /\ auth = IF hargs.token # "" THEN <<hargs.token, "">>
                  ELSE IF hargs.user # "" /\ hargs.password # ""
                       THEN <<hargs.user, hargs.password>>
                  ELSE NoAuth
        /\ hreqs > 0 => hreq.auth = auth

C18_Witness ==
    /\ hpc = "ready"
    /\ hargs = [user |-> "admin", password |-> "secret", token |-> "tok"]
    /\ auth = <<"tok", "">>
    /\ hreqs = MaxCalls /\ hreq.auth = <<"tok", "">>
    /\ hcall.op = "create_rule"

\* C15: in a migration, a create attempt that fails with a ValidationError
\* whose message contains "already exists" adds one to skipped and nothing
\* else; any other ValidationError adds one to failed and writes one
\* per-rule line to standard error; either way the loop goes on.
C15_SkipOrFail ==
    [][(kcmd = "migrate" /\ kn' = kn + 1 /\ klast'.from = "create"
            /\ klast'.exc = "ValidationError") =>
          /\ kposts' = kposts + 1
          /\ kpc' = "loop" /\ stdout' = stdout
          /\ IF \E i \in 1..Len(klast'.msg) : ContainsAlreadyExists(klast'.msg[i])
             THEN /\ cnt' = [c |-> cnt.c, s |-> cnt.s + 1, f |-> cnt.f]
                  /\ stderr' = stderr
             ELSE /\ cnt' = [c |-> cnt.c, s |-> cnt.s, f |-> cnt.f + 1]
                  /\ stderr' = Append(stderr, FailedLine)]_vars

\* one rule skipped, one failed, and a third rule created after them
C15_Witness ==
    /\ kcmd = "migrate" /\ kn = 3
    /\ cnt = [c |-> 1, s |-> 1, f |-> 1]
    /\ klast.outcome = "created"
    /\ stderr = <<FailedLine>>
    /\ kposts = 3

\* C16: in a migration, an exception that is no ValidationError, raised by
\* the source fetch or by the create call, ends the run: one error line on
\* standard error, status Incomplete, the counters as they were, and no
\* create request or counter change after it.
C16_AbortKeepsCounters ==
    [][kcmd = "migrate" =>
          /\ (kn' = kn + 1 /\ klast'.from \in {"source", "create"}
                  /\ klast'.exc \notin {"none", "ok", "ValidationError"}) =>
                /\ cnt' = cnt
                /\ stderr' = Append(stderr, ErrorLine)
                /\ stdout' = <<Summary("Incomplete", cnt)>>
                /\ kpc' = "done"
          /\ klast.outcome = "abort" =>
                /\ kposts' = kposts /\ cnt' = cnt /\ kpc' = "done"]_vars

\* two rules handled, then the create call of the third raised
C16_Witness ==
    /\ kcmd = "migrate" /\ kpc = "done" /\ kn = 3
    /\ klast.from = "create" /\ klast.exc = "AuthError"
    /\ cnt = [c |-> 1, s |-> 0, f |-> 1]
    /\ stdout = <<Summary("Incomplete", [c |-> 1, s |-> 0, f |-> 1])>>
    /\ stderr = <<FailedLine, ErrorLine>>
    /\ kposts = 3

\* C17: a run of any of the three commands that has ended has written
\* exactly one summary line; its status is Incomplete, with the error on
\* standard error, if an unrecoverable error occurred (a file that cannot
\* be opened included), and Complete otherwise.
C17_OneSummary ==
    kpc \in {"done", "crashed"} =>
        /\ Len(stdout) = 1
        /\ IF klast.outcome = "abort"
           THEN /\ stdout[1].status = "Incomplete"
                /\ stderr # <<>> /\ stderr[Len(stderr)] = ErrorLine
           ELSE stdout[1].status = "Complete"

\* C21: a paginated fetch never prefetches: a request is issued only while a
\* next() of the consumer is running, and only when every item of the
\* pages received so far has been delivered.
C21_NoPrefetch ==
    [][nreq' # nreq =>
          /\ fpc = "running"
          /\ yielded = received
          /\ nreq' = nreq + 1]_vars

\* the second page has been asked for after both items of the first one
C21_Witness ==
    /\ server.mode = "honest" /\ server.S = 2 /\ server.N = MaxN
    /\ nreq = 2 /\ Len(yielded) = 2 /\ Len(received) = MaxN
    /\ fpc = "running"

\* C22: one next() issues at most one request, whatever envelopes the
\* server returns.
C22_OneRequestPerPull == pull_reqs <= 1

\* C24: a started get_resources_full_data that emits or ends has issued the
\* metrics request and then the debt request, and nothing else; one that
\* fails has emitted no record, and fails with the error of its metrics
\* request or of its debt request.
C24_TwoRequests ==
    mpc \notin {"nocall", "created"} =>
        /\ merr = "none" => mreqs = <<"metrics", "debt">>
        /\ emitted # <<>> => (mreqs = <<"metrics", "debt">> /\ merr = "none")
        /\ merr # "none" =>
              /\ emitted = <<>>
              /\ mreqs \in {<<"metrics">>, <<"metrics", "debt">>}
              /\ merr \in {make_call(res).kind : res \in MergeFailures}

\* number of msr entries carried by the records of a list
RECURSIVE MsrTotal(_)
MsrTotal(list) ==
    IF list = <<>> THEN 0 ELSE Len(Head(list).msr) + MsrTotal(Tail(list))

\* the first record of a list with the given key
FirstOf(list, k) == list[CHOOSE i \in 1..Len(list) :
                            list[i].key = k /\ \A j \in 1..(i - 1) : list[j].key # k]

\* C25: for a key carried by several metrics records the merged record has
\* the name of the first of them and starts with its msr entries, and the
\* merged output carries as many msr entries as the two responses together.
C25_FirstSeenKept ==
    MergeDone =>
        /\ \A k \in KeysOf(mresp) :
              Count(mresp, k) > 1 =>
                  /\ RecordOf(emitted, k).name = FirstOf(mresp, k).name
                  /\ SubSeq(RecordOf(emitted, k).msr, 1, Len(FirstOf(mresp, k).msr))
                        = FirstOf(mresp, k).msr
        /\ MsrTotal(emitted) = MsrTotal(mresp) + MsrTotal(dresp)

\* the counters of a command added up
CounterSum ==
    IF kcmd = "migrate" THEN cnt.c + cnt.s + cnt.f
    ELSE IF kcmd = "activate" THEN cnt.a + cnt.f
    ELSE cnt.s + cnt.f

\* C26: in each command, as long as no error has ended the run, the
\* counters add up to the number of items the command had to act on (source
\* rules with a non-empty params list for migrate, CSV rows for activate,
\* fetched rules for export), so a Complete run has counted every such item
\* exactly once; and no more requests than such items have been sent.
C26_EveryItemCounted ==
    kpc \in {"loop", "done"} =>
        /\ CounterSum <= kattempt
        /\ kposts <= kattempt
        /\ klast.outcome # "abort" => CounterSum = kattempt
        /\ (kpc = "done" /\ stdout[1].status = "Complete") =>
              /\ CounterSum = kattempt
              /\ stdout[1].counters = cnt

\* a Complete migration of three rules, one of them without params
C26_Witness ==
    /\ kcmd = "migrate" /\ kpc = "done" /\ stdout[1].status = "Complete"
    /\ kn = 3 /\ kattempt = 2 /\ kposts = 2
    /\ cnt = [c |-> 1, s |-> 1, f |-> 0]

\* C27: the CSV of an export holds the header and one row per rule counted
\* as exported, in fetch order, and no row of a rule counted as failed.
C27_RowsAreExported ==
    (kcmd = "export" /\ kpc \in {"loop", "done"}) =>
        /\ csv[1] = "header"
        /\ Len(csv) = 1 + cnt.s
        /\ \A i, j \in 2..Len(csv) : i < j => csv[i] < csv[j]

\* is s an initial part of t
IsPrefix(s, t) == Len(s) <= Len(t) /\ SubSeq(t, 1, Len(s)) = s

\* C23: a generator that has ended, normally or with an error, issues no
\* request and yields no item on any further next(); no generator sends the
\* same request twice; and the first request of every call carries the
\* call's base query without a page parameter.
C23_NoRetryNoRestart ==
    [][\A g \in 1..2 :
          /\ gens[g].pc \in {"done", "raised"} =>
                /\ gens'[g].reqs = gens[g].reqs
                /\ gens'[g].yielded = gens[g].yielded
                /\ gens'[g].pc = gens[g].pc
          /\ Len(gens'[g].reqs) <= Len(gens[g].reqs) + 1
          /\ \A i, j \in 1..Len(gens'[g].reqs) :
                i # j => gens'[g].reqs[i] # gens'[g].reqs[j]
          /\ gens'[g].reqs # <<>> =>
                /\ "p" \notin DOMAIN gens'[g].reqs[1].qs
                /\ gens'[g].reqs[1].qs = BuildQs(gens'[g].call)]_vars

\* generator 1 failed on its second request and was pulled again; generator
\* 2, a call with the same arguments, has made its own first request
C23_Witness ==
    /\ gens[1].pc = "raised" /\ gens[1].last = "stop"
    /\ Len(gens[1].reqs) = 2 /\ Len(gens[1].yielded) = 1
    /\ gens[2].call = gens[1].call
    /\ Len(gens[2].reqs) = 1 /\ "p" \notin DOMAIN gens[2].reqs[1].qs
    /\ gens[2].pc = "suspended"

\* a generator run alone to its end against the server
RECURSIVE AloneRun(_, _, _)
AloneRun(gen, srv, fuel) ==
    IF gen.pc \in {"done", "raised"} \/ fuel = 0 THEN gen
    ELSE AloneRun(RunBody(<<gen, gen>>, 1, srv, [kind |-> "ok", msg |-> <<>>],
                          MaxRequests),
                  srv, fuel - 1)

Alone(call, srv) == AloneRun(StartBody(NewGen(call)), srv, MaxN + 1)

\* C30: under every interleaving of the pulls of two generators of one
\* handler, each has issued an initial part of the request sequence and
\* yielded an initial part of the item sequence of its run alone, and all
\* of both once it is done.
C30_NoInterference ==
    \A g \in 1..2 :
        gens[g].pc # "nocall" =>
            LET a == Alone(gens[g].call, pserver)
            IN  /\ a.pc = "done"
                /\ a.yielded = Interval(1, pserver.N)
                /\ IsPrefix(gens[g].reqs, a.reqs)
                /\ IsPrefix(gens[g].yielded, a.yielded)
                /\ gens[g].pc = "done" =>
                      (gens[g].reqs = a.reqs /\ gens[g].yielded = a.yielded)

\* both generators are under way, on different pages of different calls
C30_Witness ==
    /\ pserver = [N |-> MaxN, S |-> 1]
    /\ gens[1].pc = "suspended" /\ Len(gens[1].yielded) = 2
    /\ gens[2].pc = "suspended" /\ Len(gens[2].yielded) = 1
    /\ gens[1].call.fn = "get_metrics" /\ gens[2].call.fn = "get_rules"
    /\ gens[1].qs["p"] = 3 /\ gens[2].qs["p"] = 2

\* C28: a get_resources_metrics call leaves the caller's metrics object as
\* it found it, and a call with the same arguments as the call before it
\* issues the same requests as that call did.
C28_NoSharedState ==
    rpc \in {"done", "raised"} =>
        /\ rlist = rcur.before
        /\ (rcalls >= 2 /\ rcur.args = rprev.args) => rcur.reqs = rprev.reqs

\* the names of a selection followed by the new_ name of each
WithTrends(sel) ==
    [i \in 1..(2 * Len(sel)) |->
        IF i <= Len(sel) THEN sel[i] ELSE <<"new_">> \o sel[i - Len(sel)]]

\* C29: a get_resources_metrics call with include_trends issues exactly one
\* request, with includetrends = 'true' and with metrics = the selected
\* names followed by their new_ names, joined by ','; the selection is
\* GENERAL_METRICS when no metrics are given.
C29_TrendsRequest ==
    (rpc \in {"done", "raised"} /\ rcur.args.include_trends) =>
        LET sel == IF rcur.args.kind = "none" \/ rcur.before = <<>>
                   THEN GENERAL_METRICS ELSE rcur.before
        IN  /\ Len(rcur.reqs) = 1
            /\ rcur.reqs[1].endpoint = RESOURCES_ENDPOINT
            /\ rcur.reqs[1].params["includetrends"] = "true"
            /\ rcur.reqs[1].params["metrics"] = JoinStr(<<",">>, WithTrends(sel))

====
